---------------------------- MODULE Spec2Model ----------------------------
(***************************************************************************)
(* Model of the petition backend (src/app.py): the Flask handlers          *)
(* api_submit, api_records, api_counts and admin_export_csv over one       *)
(* MongoDB collection.  Requests are served concurrently; a handler is     *)
(* split into steps exactly where it makes separate calls into the         *)
(* persistence layer (or reads the clock before such a call), so that      *)
(* other requests can land in between.                                     *)
(*                                                                         *)
(* Python values are tagged records; text is a sequence of one-character   *)
(* strings, so that str(), strip(), replace() and the csv writer are       *)
(* computed rather than assumed.                                           *)
(***************************************************************************)
EXTENDS Integers, Sequences, FiniteSets, TLC

VARIABLES
    collection,   \* the module-level handle: None, or the "students" collection
    ADMIN_KEY,    \* os.environ.get("ADMIN_KEY", None), read once at startup
    docs,         \* the documents of the collection, in insertion order
    oid_counter,  \* source of fresh ObjectIds
    now,          \* the clock datetime.utcnow() reads
    sub,          \* per worker: the api_submit request it is handling
    cnt,          \* the api_counts request being handled
    created,      \* history: number of 201 responses sent so far
    resp          \* the last response sent, with the request it answers

vars == <<collection, ADMIN_KEY, docs, oid_counter, now, sub, cnt, created, resp>>

---------------------------------------------------------------------------
(* Bounds of the model *)

\* largest number of documents stored or about to be inserted
MaxDocs == 2

\* the instants the clock passes through: two, so that timestamps can be
\* equal and can differ
Instants == {0, 1}

\* the threads that serve POST /api/submit
Workers == {"w1", "w2"}

---------------------------------------------------------------------------
(* Python values *)

None == [t |-> "none"]

Str(s) == [t |-> "str", s |-> s]

Num(n) == [t |-> "int", n |-> n]

List(xs) == [t |-> "list", xs |-> xs]

Dict(f) == [t |-> "dict", f |-> f]

\* a request body that is not JSON at all
Unparseable == [t |-> "unparseable"]

\* Python truthiness of an optional string (None and "" are falsy)
Truthy(v) == v.t = "str" /\ Len(v.s) > 0

Digit == <<"0", "1", "2", "3", "4", "5", "6", "7", "8", "9">>

RECURSIVE Dec(_)
\* decimal digits of a natural number
Dec(n) == IF n < 10 THEN <<Digit[n + 1]>> ELSE Dec(n \div 10) \o <<Digit[(n % 10) + 1]>>

\* str(v) for the values a JSON field can hold
PyStr(v) ==
    CASE v.t = "str" -> v.s
      [] v.t = "none" -> <<"N", "o", "n", "e">>
      [] v.t = "int" -> Dec(v.n)
      [] OTHER -> <<"[", "]">>

IsSpace(c) == c \in {" ", "\n", "\r", "\t"}

RECURSIVE LStrip(_)
LStrip(s) == IF s # <<>> /\ IsSpace(Head(s)) THEN LStrip(Tail(s)) ELSE s

RECURSIVE RStrip(_)
RStrip(s) == IF s # <<>> /\ IsSpace(s[Len(s)]) THEN RStrip(SubSeq(s, 1, Len(s) - 1)) ELSE s

\* str.strip()
Strip(s) == RStrip(LStrip(s))

\* needle occurs in hay as a contiguous run (Python's `in` on two strings)
IsSubstring(needle, hay) ==
    \E i \in 1..(Len(hay) - Len(needle) + 1) : SubSeq(hay, i, i + Len(needle) - 1) = needle

---------------------------------------------------------------------------
(* api_submit: validation *)

required == <<"afn", "year", "branch", "comment", "form_type">>

\* the characters of each required field name
KeyChars(r) ==
    CASE r = "afn" -> <<"a", "f", "n">>
      [] r = "year" -> <<"y", "e", "a", "r">>
      [] r = "branch" -> <<"b", "r", "a", "n", "c", "h">>
      [] r = "comment" -> <<"c", "o", "m", "m", "e", "n", "t">>
      [] r = "form_type" -> <<"f", "o", "r", "m", "_", "t", "y", "p", "e">>

\* `r in data` raises TypeError unless data is a container
SupportsIn(data) == data.t \in {"dict", "list", "str"}

\* `r in data`
Contains(data, r) ==
    CASE data.t = "dict" -> r \in DOMAIN data.f
      [] data.t = "list" -> \E i \in 1..Len(data.xs) : data.xs[i] = Str(KeyChars(r))
      [] data.t = "str" -> IsSubstring(KeyChars(r), data.s)

RECURSIVE CheckRequired_NoStrip(_, _)
\* CheckRequired testing `not str(data[r])`, the strip() forgotten
CheckRequired_NoStrip(data, i) ==
    IF i > Len(required) THEN [kind |-> "ok"]
    ELSE LET r == required[i] IN
         IF ~SupportsIn(data) THEN [kind |-> "raise", exc |-> "TypeError"]
         ELSE IF ~Contains(data, r) THEN [kind |-> "missing", field |-> r]
         ELSE IF data.t # "dict" THEN [kind |-> "raise", exc |-> "TypeError"]
         ELSE IF PyStr(data.f[r]) = <<>> THEN [kind |-> "missing", field |-> r]
         ELSE CheckRequired_NoStrip(data, i + 1)

\* the outcome of the loop over `required`, from index i on
RECURSIVE CheckRequired(_, _)
CheckRequired(data, i) ==
    IF i > Len(required) THEN [kind |-> "ok"]
    ELSE LET r == required[i] IN
         IF ~SupportsIn(data) THEN [kind |-> "raise", exc |-> "TypeError"]
         ELSE IF ~Contains(data, r) THEN [kind |-> "missing", field |-> r]
         ELSE IF data.t # "dict" THEN [kind |-> "raise", exc |-> "TypeError"]
         ELSE IF Strip(PyStr(data.f[r])) = <<>> THEN [kind |-> "missing", field |-> r]
         ELSE CheckRequired(data, i + 1)

\* MakeEntry storing str(data[...]) as sent, the strip() forgotten
MakeEntry_NoStrip(data, t) ==
    [afn |-> PyStr(data.f["afn"]),
     year |-> PyStr(data.f["year"]),
     branch |-> PyStr(data.f["branch"]),
     comment |-> PyStr(data.f["comment"]),
     form_type |-> PyStr(data.f["form_type"]),
     created_at |-> t]

\* the entry dict built from a validated body, stamped at time t
MakeEntry(data, t) ==
    [afn |-> Strip(PyStr(data.f["afn"])),
     year |-> Strip(PyStr(data.f["year"])),
     branch |-> Strip(PyStr(data.f["branch"])),
     comment |-> Strip(PyStr(data.f["comment"])),
     form_type |-> Strip(PyStr(data.f["form_type"])),
     created_at |-> t]

---------------------------------------------------------------------------
(* Responses *)

JsonError(msg) == [kind |-> "json", json |-> [success |-> FALSE, error |-> msg]]

JsonOk(payload) == [kind |-> "json", json |-> payload]

\* an exception that leaves the view function: Flask answers 500 itself
Unhandled(exc) == [kind |-> "unhandled", exc |-> exc]

Response(route, req, status, body, calls) ==
    [route |-> route, req |-> req, status |-> status, body |-> body, dbcalls |-> calls]

NoResponse == [route |-> "none", req |-> None, status |-> 0, body |-> None, dbcalls |-> <<>>]

_db_available == collection # None

\* SubmitOutcome parsing and validating the body before it looks at the handle
SubmitOutcome_ParseFirst(body) ==
    IF body = Unparseable THEN [kind |-> "badjson"]
    ELSE LET c == CheckRequired(body, 1) IN
         IF c.kind # "ok" THEN c
         ELSE IF ~_db_available THEN [kind |-> "unavailable"]
         ELSE c

\* what api_submit decides before it builds the entry: the availability
\* check, then request.get_json(force=True), then the loop over `required`
SubmitOutcome(body) ==
    IF ~_db_available THEN [kind |-> "unavailable"]
    ELSE IF body = Unparseable THEN [kind |-> "badjson"]
    ELSE CheckRequired(body, 1)

\* str(ObjectId)
OidStr(n) == <<"o", "i", "d">> \o Dec(n)


\* ObjectId and datetime are opaque values; their text forms are injective
IsoFormat(t) == <<"T">> \o Dec(t)

\* the handle MongoClient(...)[DB_NAME]["students"]
Students == [t |-> "collection", name |-> "students"]

---------------------------------------------------------------------------
(* Requests the clients send *)

petition == <<"p", "e", "t", "i", "t", "i", "o", "n">>

demand == <<"d", "e", "m", "a", "n", "d">>

\* three bodies that pass validation
Body1 ==
    Dict([afn |-> Str(<<" ", "a", " ">>), year |-> Num(1), branch |-> Str(<<"b">>),
          comment |-> Str(<<"c", "\n", "d">>),
          form_type |-> Str(<<" ">> \o petition \o <<"\n">>)])

\* this one also carries a created_at and an _id of the caller's own
Body2 ==
    Dict([afn |-> None, year |-> Str(<<"2">>), branch |-> Str(<<"b">>),
          comment |-> Str(<<"c", ",", "\"">>), form_type |-> Str(demand),
          created_at |-> Str(<<"9">>), _id |-> Str(<<"m", "e">>)])

Body3 ==
    Dict([afn |-> Str(<<"x", "\n", "y">>), year |-> Str(<<"3">>), branch |-> Str(<<"b">>),
          comment |-> Str(<<"c", "\r", "d">>),
          form_type |-> Str(<<"P">> \o Tail(petition))])

ValidBodies == {Body1, Body2, Body3}

Without(d, r) == Dict([k \in (DOMAIN d.f) \ {r} |-> d.f[k]])

With(d, r, v) == Dict([k \in (DOMAIN d.f) \cup {r} |-> IF k = r THEN v ELSE d.f[k]])

\* bodies with a required field absent, empty or whitespace-only
DefectiveBodies ==
    {Without(Body1, required[i]) : i \in 1..Len(required)}
    \cup {With(Body1, "comment", Str(<<" ", "\n">>)),
          With(Body2, "form_type", Str(<<>>)),
          Without(With(Body1, "afn", Str(<<"\t">>)), "year")}

\* bodies that parse as JSON but are no object
NonObjectBodies ==
    {None, Num(7), Str(KeyChars("afn")), List(<<>>)}

Bodies == ValidBodies \cup DefectiveBodies \cup NonObjectBodies \cup {Unparseable}

\* what a client may send as X-ADMIN-KEY or as admin_key (None: not sent)
Keys == {None, Str(<<>>), Str(<<"k">>), Str(<<"x">>)}

\* the (X-ADMIN-KEY, admin_key) pairs the clients send
KeyPairs ==
    {<<h, None>> : h \in Keys} \cup {<<None, q>> : q \in Keys}
    \cup {<<Str(<<"x">>), Str(<<"k">>)>>}

\* what the operator may have configured
ConfiguredKeys == {None, Str(<<>>), Str(<<"k">>)}

---------------------------------------------------------------------------
(* State *)

Idle == [pc |-> "idle"]

InFlight == Cardinality({w \in Workers : sub[w].pc = "insert"})

Init ==
    /\ collection \in {None, Students}
    /\ ADMIN_KEY \in ConfiguredKeys
    /\ docs = <<>>
    /\ oid_counter = 1
    /\ now = 0
    /\ sub = [w \in Workers |-> Idle]
    /\ cnt = Idle
    /\ created = 0
    /\ resp = NoResponse

\* resp is the response on the wire.  It is delivered to its client before
\* the next step is taken; no handler reads it, so this orders the
\* observations and removes no interleaving of the handlers.
Ready == resp = NoResponse

Deliver ==
    /\ resp # NoResponse
    /\ resp' = NoResponse
    /\ UNCHANGED <<collection, ADMIN_KEY, docs, oid_counter, now, sub, cnt, created>>

\* the clock advances
Tick ==
    /\ Ready
    /\ now + 1 \in Instants
    /\ now' = now + 1
    /\ UNCHANGED <<collection, ADMIN_KEY, docs, oid_counter, sub, cnt, created, resp>>

---------------------------------------------------------------------------
(* POST /api/submit *)

\* the handler up to and including the construction of `entry`
api_submit_validate(body) ==
    /\ Ready
    /\ \E w \in Workers : sub[w].pc = "idle"
    /\ UNCHANGED <<collection, ADMIN_KEY, docs, oid_counter, now, cnt, created>>
    /\ LET c == SubmitOutcome(body) IN
       CASE c.kind = "unavailable" ->
              /\ resp' = Response("submit", body, 503,
                                  JsonError(<<"Database unavailable">>), <<>>)
              /\ UNCHANGED sub
         [] c.kind = "badjson" ->
              /\ resp' = Response("submit", body, 400,
                                  JsonError(<<"Invalid JSON body">>), <<>>)
              /\ UNCHANGED sub
         [] c.kind = "raise" ->
              /\ resp' = Response("submit", body, 500, Unhandled(c.exc), <<>>)
              /\ UNCHANGED sub
         [] c.kind = "missing" ->
              /\ resp' = Response("submit", body, 400,
                                  JsonError(<<"Missing or empty field: ", c.field>>), <<>>)
              /\ UNCHANGED sub
         [] c.kind = "ok" ->
              /\ Len(docs) + InFlight < MaxDocs
              /\ LET w == CHOOSE v \in Workers : sub[v].pc = "idle" IN
                 sub' = [sub EXCEPT ![w] = [pc |-> "insert", req |-> body,
                                            entry |-> MakeEntry(body, now)]]
              /\ UNCHANGED resp

\* StoredDoc giving every document the same _id
StoredDoc_ConstantId(entry, oid) ==
    [_id |-> 1, afn |-> entry.afn, year |-> entry.year, branch |-> entry.branch,
     comment |-> entry.comment, form_type |-> entry.form_type,
     created_at |-> entry.created_at]

\* the document insert_one stores: the entry plus a fresh ObjectId
StoredDoc(entry, oid) ==
    [_id |-> oid, afn |-> entry.afn, year |-> entry.year, branch |-> entry.branch,
     comment |-> entry.comment, form_type |-> entry.form_type,
     created_at |-> entry.created_at]

\* the entry returned to the caller: entry["_id"] = str(result.inserted_id)
ReturnedEntry(entry, oid) ==
    [_id |-> OidStr(oid), afn |-> entry.afn, year |-> entry.year, branch |-> entry.branch,
     comment |-> entry.comment, form_type |-> entry.form_type,
     created_at |-> entry.created_at]

\* collection.insert_one(entry) and the response that follows it
api_submit_insert(w) ==
    /\ Ready
    /\ sub[w].pc = "insert"
    /\ sub' = [sub EXCEPT ![w] = Idle]
    /\ UNCHANGED <<collection, ADMIN_KEY, now>>
    /\ \/ /\ docs' = Append(docs, StoredDoc(sub[w].entry, oid_counter))
          /\ oid_counter' = oid_counter + 1
          /\ created' = created + 1
          /\ cnt' = IF cnt.pc = "idle" THEN cnt ELSE [cnt EXCEPT !.landed = @ + 1]
          /\ resp' = Response("submit", sub[w].req, 201,
                              JsonOk([success |-> TRUE,
                                      entry |-> ReturnedEntry(sub[w].entry, oid_counter)]),
                              <<"insert_one">>)
       \/ /\ resp' = Response("submit", sub[w].req, 500,
                              JsonError(<<"Database insert failed">>), <<"insert_one">>)
          /\ UNCHANGED <<docs, oid_counter, created, cnt>>

---------------------------------------------------------------------------
(* GET /api/counts: three separate count_documents calls *)

\* CountFormType matching the form_type without regard to its first letter's case
CountFormType_AnyCase(ft) ==
    Cardinality({i \in 1..Len(docs) : Tail(docs[i].form_type) = Tail(ft)})

\* collection.count_documents({"form_type": ft})
CountFormType(ft) == Cardinality({i \in 1..Len(docs) : docs[i].form_type = ft})

\* collection.count_documents({})
CountAll == Len(docs)

CountsFailed ==
    /\ resp' = Response("counts", [landed |-> IF cnt.pc = "idle" THEN 0 ELSE cnt.landed], 500,
                        JsonError(<<"Database count failed">>), <<"count_documents">>)
    /\ cnt' = Idle

\* the availability check and the first count: total
api_counts_total ==
    /\ Ready
    /\ cnt.pc = "idle"
    /\ UNCHANGED <<collection, ADMIN_KEY, docs, oid_counter, now, sub, created>>
    /\ IF ~_db_available
       THEN /\ resp' = Response("counts", [landed |-> 0], 503,
                                JsonError(<<"Database unavailable">>), <<>>)
            /\ UNCHANGED cnt
       ELSE \/ /\ cnt' = [pc |-> "petitions", total |-> CountAll, petitions |-> 0, landed |-> 0]
               /\ UNCHANGED resp
            \/ CountsFailed

\* the second count: petitions
api_counts_petitions ==
    /\ Ready
    /\ cnt.pc = "petitions"
    /\ UNCHANGED <<collection, ADMIN_KEY, docs, oid_counter, now, sub, created>>
    /\ \/ /\ cnt' = [cnt EXCEPT !.pc = "demands", !.petitions = CountFormType(petition)]
          /\ UNCHANGED resp
       \/ CountsFailed

\* the third count, demands, and the response
api_counts_demands ==
    /\ Ready
    /\ cnt.pc = "demands"
    /\ UNCHANGED <<collection, ADMIN_KEY, docs, oid_counter, now, sub, created>>
    /\ \/ /\ resp' = Response("counts", [landed |-> cnt.landed], 200,
                              JsonOk([success |-> TRUE, total |-> cnt.total,
                                      petitions |-> cnt.petitions,
                                      demands |-> CountFormType(demand)]),
                              <<"count_documents", "count_documents", "count_documents">>)
          /\ cnt' = Idle
       \/ CountsFailed

---------------------------------------------------------------------------
(* collection.find().sort("created_at", -1) *)

\* SortedCursors sorting by created_at ascending: sort("created_at", 1)
SortedCursors_Ascending ==
    {[i \in 1..Len(docs) |-> docs[p[i]]] : p \in
        {q \in Permutations(1..Len(docs)) :
            \A i, j \in 1..Len(docs) :
                i < j => docs[q[i]].created_at <= docs[q[j]].created_at}}

\* the orders in which the cursor may yield the documents: created_at
\* descending, documents with equal created_at in any order
SortedCursors ==
    {[i \in 1..Len(docs) |-> docs[p[i]]] : p \in
        {q \in Permutations(1..Len(docs)) :
            \A i, j \in 1..Len(docs) :
                i < j => docs[q[i]].created_at >= docs[q[j]].created_at}}

---------------------------------------------------------------------------
(* GET /api/records *)

RecordOf(d) ==
    [_id |-> OidStr(d._id), afn |-> d.afn, year |-> d.year, branch |-> d.branch,
     comment |-> d.comment, form_type |-> d.form_type,
     created_at |-> IsoFormat(d.created_at)]

api_records ==
    /\ Ready
    /\ UNCHANGED <<collection, ADMIN_KEY, docs, oid_counter, now, sub, cnt, created>>
    /\ IF ~_db_available
       THEN resp' = Response("records", None, 503, JsonError(<<"Database unavailable">>), <<>>)
       ELSE \/ \E cursor \in SortedCursors :
                 resp' = Response("records", None, 200,
                                  JsonOk([success |-> TRUE,
                                          records |-> [i \in 1..Len(cursor) |->
                                                          RecordOf(cursor[i])]]),
                                  <<"find">>)
            \/ resp' = Response("records", None, 500,
                                JsonError(<<"Database read failed">>), <<"find">>)

---------------------------------------------------------------------------
(* GET /admin/export.csv *)

\* _check_admin_key comparing directly, without the None and truthiness guards
_check_admin_key_NoGuard(header_key, param_key) ==
    header_key = ADMIN_KEY \/ param_key = ADMIN_KEY

_check_admin_key(header_key, param_key) ==
    IF ADMIN_KEY = None THEN FALSE
    ELSE IF Truthy(header_key) /\ header_key = ADMIN_KEY THEN TRUE
    ELSE IF Truthy(param_key) /\ param_key = ADMIN_KEY THEN TRUE
    ELSE FALSE

RECURSIVE Replace(_, _, _)
\* str.replace(old, new) for a one-character old
Replace(s, old, new) ==
    IF s = <<>> THEN <<>>
    ELSE (IF Head(s) = old THEN new ELSE <<Head(s)>>) \o Replace(Tail(s), old, new)

\* .replace("\r", " ").replace("\n", " \\n ")
EscapeComment(c) == Replace(Replace(c, "\r", <<" ">>), "\n", <<" ", "\\", "n", " ">>)

\* csv.writer, default dialect: a field holding the delimiter, the quote
\* character or a line break is quoted, its quote characters doubled
CsvField(f) ==
    IF \E i \in 1..Len(f) : f[i] \in {",", "\"", "\r", "\n"}
    THEN <<"\"">> \o Replace(f, "\"", <<"\"", "\"">>) \o <<"\"">>
    ELSE f

RECURSIVE CsvJoin(_)
CsvJoin(fields) ==
    IF Len(fields) = 1 THEN CsvField(fields[1])
    ELSE CsvField(fields[1]) \o <<",">> \o CsvJoin(Tail(fields))

\* writer.writerow(fields)
WriteRow(fields) == CsvJoin(fields) \o <<"\r", "\n">>

HeaderRow ==
    <<<<"i", "d">>, KeyChars("afn"), KeyChars("year"), KeyChars("branch"),
      KeyChars("form_type"), KeyChars("comment"),
      <<"c", "r", "e", "a", "t", "e", "d", "_", "a", "t", "_",
        "u", "t", "c", "_", "i", "s", "o">>>>

DataRow(doc) ==
    <<OidStr(doc._id), doc.afn, doc.year, doc.branch, doc.form_type,
      EscapeComment(doc.comment), IsoFormat(doc.created_at)>>

RECURSIVE WriteRows(_)
WriteRows(cursor) ==
    IF cursor = <<>> THEN <<>>
    ELSE WriteRow(DataRow(Head(cursor))) \o WriteRows(Tail(cursor))

admin_export_csv(header_key, param_key) ==
    LET req == [header |-> header_key, param |-> param_key] IN
    /\ Ready
    /\ UNCHANGED <<collection, ADMIN_KEY, docs, oid_counter, now, sub, cnt, created>>
    /\ IF ~_check_admin_key(header_key, param_key)
       THEN resp' = Response("export", req, 401, JsonError(<<"Unauthorized">>), <<>>)
       ELSE IF ~_db_available
       THEN resp' = Response("export", req, 503, JsonError(<<"Database unavailable">>), <<>>)
       ELSE \/ \E cursor \in SortedCursors :
                 resp' = Response("export", req, 200,
                                  [kind |-> "csv",
                                   text |-> WriteRow(HeaderRow) \o WriteRows(cursor),
                                   mimetype |-> "text/csv",
                                   disposition |-> "attachment; filename=petition_records.csv"],
                                  <<"find">>)
            \* the cursor is iterated outside the try block
            \/ resp' = Response("export", req, 500, Unhandled("PyMongoError"), <<"find">>)

Next ==
    \/ Deliver
    \/ Tick
    \/ \E body \in Bodies : api_submit_validate(body)
    \/ \E w \in Workers : api_submit_insert(w)
    \/ api_counts_total
    \/ api_counts_petitions
    \/ api_counts_demands
    \/ api_records
    \/ \E kp \in KeyPairs : admin_export_csv(kp[1], kp[2])

Spec == Init /\ [][Next]_vars


---------------------------------------------------------------------------
(* Vocabulary of the properties *)

AllSpace(s) == \A i \in 1..Len(s) : IsSpace(s[i])

\* e is s without its leading and trailing whitespace
IsTrimOf(e, s) ==
    \E i \in 1..(Len(s) + 1) : \E j \in (i - 1)..Len(s) :
        /\ e = SubSeq(s, i, j)
        /\ AllSpace(SubSeq(s, 1, i - 1))
        /\ AllSpace(SubSeq(s, j + 1, Len(s)))
        /\ e # <<>> => ~IsSpace(e[1]) /\ ~IsSpace(e[Len(e)])

FieldOrder == <<"afn", "year", "branch", "comment", "form_type">>

\* field r of JSON object b is present and not whitespace-only
Populated(b, r) == r \in DOMAIN b.f /\ ~AllSpace(PyStr(b.f[r]))

AllPopulated(b) == b.t = "dict" /\ \A i \in 1..Len(FieldOrder) : Populated(b, FieldOrder[i])

\* the first field, in the fixed order, that is absent or whitespace-only
FirstUnpopulated(b) ==
    FieldOrder[CHOOSE i \in 1..Len(FieldOrder) :
        /\ ~Populated(b, FieldOrder[i])
        /\ \A j \in 1..(i - 1) : Populated(b, FieldOrder[j])]

IsEnvelope(r, status, msg) ==
    /\ r.status = status
    /\ r.body.kind = "json"
    /\ r.body.json = [success |-> FALSE, error |-> msg]

\* the request carries a key equal to the configured secret
SuppliesSecret(req) ==
    ADMIN_KEY # None /\ (req.header = ADMIN_KEY \/ req.param = ADMIN_KEY)

Available == collection # None

---------------------------------------------------------------------------
(* C1 *)

\* C1 as stated: with collection None, every submit, records and counts
\* request, and every export request carrying the configured secret, is
\* answered 503 without touching the collection.
C1_AsStated ==
    (/\ ~Available
     /\ resp.route \in {"submit", "records", "counts", "export"}
     /\ resp.route = "export" => SuppliesSecret(resp.req))
    => /\ IsEnvelope(resp, 503, <<"Database unavailable">>)
       /\ resp.dbcalls = <<>>
       /\ docs = <<>>
       /\ \A w \in Workers : sub[w] = Idle

\* C1: with collection None, every submit (whatever its body: unparseable,
\* not an object, fields missing), records and counts request, and every
\* export request carrying the configured NON-EMPTY secret, is answered 503
\* with no call into the collection, which stays as it was.
C1_Unavailable503 ==
    (/\ ~Available
     /\ resp.route \in {"submit", "records", "counts", "export"}
     /\ resp.route = "export" => SuppliesSecret(resp.req) /\ Truthy(ADMIN_KEY))
    => /\ IsEnvelope(resp, 503, <<"Database unavailable">>)
       /\ resp.dbcalls = <<>>
       /\ docs = <<>>
       /\ \A w \in Workers : sub[w] = Idle

C1_Witness ==
    /\ ~Available
    /\ resp.route = "submit"
    /\ resp.req \in DefectiveBodies \cup {Unparseable}
    /\ resp.status = 503

---------------------------------------------------------------------------
(* C2 *)

\* the returned entry is the request's five fields trimmed, a clock reading
\* and the text of the stored document's id
EntryMatches(e, req, d) ==
    /\ \A i \in 1..Len(FieldOrder) :
          LET r == FieldOrder[i] IN IsTrimOf(e[r], PyStr(req.f[r])) /\ e[r] # <<>>
    /\ e.created_at \in Instants /\ e.created_at <= now
    /\ e._id # <<>> /\ e._id = OidStr(d._id)
    /\ \A i \in 1..Len(FieldOrder) : d[FieldOrder[i]] = e[FieldOrder[i]]
    /\ d.created_at = e.created_at

Created(r, before, after) ==
    /\ r.status = 201
    /\ r.body.kind = "json" /\ r.body.json.success = TRUE
    /\ Len(after) = Len(before) + 1
    /\ SubSeq(after, 1, Len(before)) = before
    /\ EntryMatches(r.body.json.entry, r.req, after[Len(after)])

\* C2 as stated: a submit with all five fields populated, collection
\* available, is always answered 201.
C2_AsStated ==
    (Available /\ resp.route = "submit" /\ AllPopulated(resp.req)) => resp.status = 201

\* C2: with the collection available, a submit whose five fields are all
\* populated is answered 201 with success true, exactly one document is
\* appended, and the returned entry carries the five trimmed fields, the
\* service's timestamp and a non-empty id -- unless insert_one fails, in
\* which case the answer is 500 "Database insert failed" and nothing is stored.
C2_ValidSubmit ==
    [][(Available /\ resp'.route = "submit" /\ AllPopulated(resp'.req))
       => \/ Created(resp', docs, docs')
          \/ /\ IsEnvelope(resp', 500, <<"Database insert failed">>)
             /\ docs' = docs]_vars

C2_Witness ==
    /\ resp.route = "submit"
    /\ resp.status = 201
    /\ resp.req = Body1
    /\ Len(docs) = 2

---------------------------------------------------------------------------
(* C3 *)

\* C3: with the collection available, a submit whose body is a JSON object
\* with a required field absent or whitespace-only is answered 400
\* "Missing or empty field: <name>", <name> the first such field in the
\* order afn, year, branch, comment, form_type; nothing is inserted and no
\* insert is started.
C3_MissingField ==
    [][(/\ Available
        /\ resp'.route = "submit"
        /\ resp'.req.t = "dict"
        /\ ~AllPopulated(resp'.req))
       => /\ IsEnvelope(resp', 400,
                        <<"Missing or empty field: ", FirstUnpopulated(resp'.req)>>)
          /\ resp'.dbcalls = <<>>
          /\ docs' = docs
          /\ sub' = sub]_vars

\* afn is whitespace-only and year is absent: afn is named
C3_Witness ==
    /\ Available
    /\ resp.route = "submit"
    /\ resp.req.t = "dict"
    /\ ~Populated(resp.req, "afn") /\ ~Populated(resp.req, "year")
    /\ resp.status = 400

---------------------------------------------------------------------------
(* C4 *)

\* C4: an export request is answered 401 "Unauthorized", with no CSV body
\* and no call into the collection, whenever no secret is configured or
\* neither the header nor the query parameter equals the configured secret;
\* this is so whether or not the collection is available.
C4_Unauthorized ==
    (/\ resp.route = "export"
     /\ \/ ADMIN_KEY = None
        \/ resp.req.header # ADMIN_KEY /\ resp.req.param # ADMIN_KEY)
    => /\ IsEnvelope(resp, 401, <<"Unauthorized">>)
       /\ resp.dbcalls = <<>>

\* a wrong key, a configured secret and no collection: 401, not 503
C4_Witness ==
    /\ resp.route = "export"
    /\ ~Available
    /\ Truthy(ADMIN_KEY)
    /\ resp.req.header = Str(<<"x">>)
    /\ resp.status = 401

---------------------------------------------------------------------------
(* C5 and C10 *)

RECURSIVE Tally(_, _)
\* how many documents of ds have exactly the form_type ft
Tally(ds, ft) ==
    IF ds = <<>> THEN 0
    ELSE (IF Head(ds).form_type = ft THEN 1 ELSE 0) + Tally(Tail(ds), ft)

RECURSIVE TallyOther(_)
\* how many documents of ds are neither petitions nor demands
TallyOther(ds) ==
    IF ds = <<>> THEN 0
    ELSE (IF Head(ds).form_type \notin {petition, demand} THEN 1 ELSE 0)
         + TallyOther(Tail(ds))

\* C5: a counts request during which no insert lands, answered 200 after
\* exactly N submits were answered 201, returns total = N, petitions and
\* demands the numbers of entries whose form_type is exactly "petition" and
\* exactly "demand", and the entries of any other form_type make up the
\* rest of total; so petitions + demands <= total.
C5_Counts ==
    (resp.route = "counts" /\ resp.status = 200 /\ resp.req.landed = 0)
    => LET c == resp.body.json IN
       /\ c.success = TRUE
       /\ c.total = created
       /\ c.petitions = Tally(docs, petition)
       /\ c.demands = Tally(docs, demand)
       /\ c.total = c.petitions + c.demands + TallyOther(docs)
       /\ c.petitions + c.demands <= c.total

\* a petition and an entry whose form_type is "Petition"
C5_Witness ==
    /\ resp.route = "counts" /\ resp.status = 200 /\ resp.req.landed = 0
    /\ resp.body.json.total = 2
    /\ resp.body.json.petitions = 1
    /\ resp.body.json.demands = 0

\* C10 as stated: every counts response, also one of a request that ran
\* while submits were inserting, has petitions + demands <= total.
C10_AsStated ==
    (resp.route = "counts" /\ resp.status = 200)
    => resp.body.json.petitions + resp.body.json.demands <= resp.body.json.total

---------------------------------------------------------------------------
(* C6 *)

\* where the document with ObjectId oid stands in a records list
PositionOf(records, oid) == CHOOSE k \in 1..Len(records) : records[k]._id = OidStr(oid)

\* C6 as stated: a records response lists every stored entry once, by
\* created_at non-increasing, and of two entries with distinct timestamps
\* the one inserted first stands after the other.
C6_AsStated ==
    (resp.route = "records" /\ resp.status = 200)
    => LET rs == resp.body.json.records IN
       /\ Len(rs) = Len(docs)
       /\ \A i \in 1..Len(docs) : \E k \in 1..Len(rs) : rs[k] = RecordOf(docs[i])
       /\ \A i, j \in 1..Len(docs) :
             PositionOf(rs, docs[i]._id) < PositionOf(rs, docs[j]._id)
                => docs[i].created_at >= docs[j].created_at
       /\ \A i, j \in 1..Len(docs) :
             (i < j /\ docs[i].created_at # docs[j].created_at)
                => PositionOf(rs, docs[i]._id) > PositionOf(rs, docs[j]._id)

---------------------------------------------------------------------------
(* C7 *)

\* C7 as stated: every response that is not a success is a JSON error
\* envelope with status 400, 401, 503 or 500; a submit whose body is JSON
\* but no object is answered with a 400 envelope; a failed export is answered
\* with a 500 envelope.
C7_AsStated ==
    /\ (resp.route # "none" /\ resp.status \notin {200, 201})
       => /\ resp.status \in {400, 401, 503, 500}
          /\ resp.body.kind = "json"
          /\ resp.body.json.success = FALSE
    /\ (Available /\ resp.route = "submit" /\ resp.req \in NonObjectBodies)
       => resp.status = 400 /\ resp.body.kind = "json"

---------------------------------------------------------------------------
(* C8 *)

\* position i of text lies outside every quoted field: an even number of
\* quote characters precedes it (a doubled quote inside a field counts twice)
Unquoted(text, i) == Cardinality({k \in 1..(i - 1) : text[k] = "\""}) % 2 = 0

\* the k-th smallest member of a set of numbers
Kth(S, k) == CHOOSE x \in S : Cardinality({y \in S : y < x}) = k - 1

RECURSIVE Undouble(_)
Undouble(s) ==
    IF s = <<>> THEN <<>>
    ELSE IF Head(s) = "\"" /\ Len(s) > 1 /\ s[2] = "\""
    THEN <<"\"">> \o Undouble(Tail(Tail(s)))
    ELSE <<Head(s)>> \o Undouble(Tail(s))

\* the text of a field as written: outer quotes removed, "" read as "
FieldText(f) ==
    IF f # <<>> /\ Head(f) = "\"" THEN Undouble(SubSeq(f, 2, Len(f) - 1)) ELSE f

\* the fields of one line: it is cut at its commas outside quotes
CsvFields(line) ==
    LET cuts == {i \in 1..Len(line) : line[i] = "," /\ Unquoted(line, i)}
        m == Cardinality(cuts)
        from(k) == IF k = 1 THEN 1 ELSE Kth(cuts, k - 1) + 1
        to(k) == IF k = m + 1 THEN Len(line) ELSE Kth(cuts, k) - 1
    IN [k \in 1..(m + 1) |-> FieldText(SubSeq(line, from(k), to(k)))]

\* the rows a CSV reader finds in text: a row ends at a CR LF outside quotes
CsvRead(text) ==
    LET ends == {i \in 1..(Len(text) - 1) :
                    text[i] = "\r" /\ text[i + 1] = "\n" /\ Unquoted(text, i)}
        from(k) == IF k = 1 THEN 1 ELSE Kth(ends, k - 1) + 2
    IN [k \in 1..Cardinality(ends) |-> CsvFields(SubSeq(text, from(k), Kth(ends, k) - 1))]

HeaderLine ==
    <<"i", "d", ",", "a", "f", "n", ",", "y", "e", "a", "r", ",", "b",
      "r", "a", "n", "c", "h", ",", "f", "o", "r", "m", "_", "t", "y",
      "p", "e", ",", "c", "o", "m", "m", "e", "n", "t", ",", "c", "r",
      "e", "a", "t", "e", "d", "_", "a", "t", "_", "u", "t", "c", "_",
      "i", "s", "o">>

\* the CSV is the exact header line, then one row per stored entry, the
\* rows in an order of non-increasing created_at
GoodCsv(body) ==
    LET rows == CsvRead(body.text)
        n == Len(docs)
    IN /\ body.kind = "csv"
       /\ body.disposition = "attachment; filename=petition_records.csv"
       /\ SubSeq(body.text, 1, Len(HeaderLine) + 2) = HeaderLine \o <<"\r", "\n">>
       /\ Len(rows) = n + 1
       /\ \A k \in 1..Len(rows) : Len(rows[k]) = 7
       /\ \E p \in Permutations(1..n) :
             /\ \A k \in 1..n :
                   /\ rows[k + 1][1] = OidStr(docs[p[k]]._id)
                   /\ rows[k + 1][2] = docs[p[k]].afn
                   /\ rows[k + 1][3] = docs[p[k]].year
                   /\ rows[k + 1][4] = docs[p[k]].branch
                   /\ rows[k + 1][5] = docs[p[k]].form_type
                   /\ rows[k + 1][7] = IsoFormat(docs[p[k]].created_at)
             /\ \A k \in 1..(n - 1) : docs[p[k]].created_at >= docs[p[k + 1]].created_at

\* C8 as stated: an export request carrying the configured secret, with the
\* collection available, is answered 200 with the CSV.
C8_AsStated ==
    (resp.route = "export" /\ SuppliesSecret(resp.req) /\ Available)
    => resp.status = 200 /\ GoodCsv(resp.body)

\* C8: an export request carrying the configured NON-EMPTY secret, with the
\* collection available, is answered 200 with a CSV whose first line is
\* exactly id,afn,year,branch,form_type,comment,created_at_utc_iso, followed
\* by one row per stored entry in created_at-descending order -- unless the
\* read fails while the cursor is iterated, in which case the answer is a
\* 500 and no CSV.
C8_Export ==
    (resp.route = "export" /\ SuppliesSecret(resp.req) /\ Truthy(ADMIN_KEY) /\ Available)
    => \/ resp.status = 200 /\ GoodCsv(resp.body)
       \/ resp.status = 500 /\ resp.body.kind # "csv"

\* two entries with line breaks, commas and quotes in their fields
C8_Witness ==
    /\ resp.route = "export"
    /\ resp.status = 200
    /\ Len(docs) = 2
    /\ docs[1].created_at < docs[2].created_at
    /\ \E i \in 1..2 : docs[i].afn = <<"x", "\n", "y">>
    /\ \E i \in 1..2 : docs[i].comment = <<"c", ",", "\"">>

---------------------------------------------------------------------------
(* C9 *)

Complete(d) ==
    /\ DOMAIN d = {"_id", "afn", "year", "branch", "comment", "form_type", "created_at"}
    /\ d._id \in Nat
    /\ d.created_at \in Instants
    /\ \A i \in 1..Len(FieldOrder) :
          LET v == d[FieldOrder[i]] IN
          v # <<>> /\ ~IsSpace(v[1]) /\ ~IsSpace(v[Len(v)])

StoreInvariant ==
    /\ \A i \in 1..Len(docs) : Complete(docs[i])
    /\ \A i, j \in 1..Len(docs) : docs[i]._id = docs[j]._id => i = j

AppendOnly ==
    \/ docs' = docs
    \/ /\ Len(docs') = Len(docs) + 1
       /\ SubSeq(docs', 1, Len(docs)) = docs
       /\ resp'.route = "submit" /\ resp'.status = 201

\* C9: always, every stored entry has its id, its five string fields and
\* created_at, the strings non-empty and free of leading and trailing
\* whitespace, and the ids are pairwise distinct; and every step leaves the
\* stored entries as they are, except the step that answers a submit 201,
\* which appends exactly one.
C9_AppendOnly == [](StoreInvariant) /\ [][AppendOnly]_vars

\* an insert fails after an entry was stored: the entry is still there
C9_Witness ==
    /\ Len(docs) = 1
    /\ resp.route = "submit"
    /\ resp.status = 500
    /\ resp.dbcalls = <<"insert_one">>

=============================================================================
